---------------------------- MODULE Spec2Model ----------------------------
(***************************************************************************)
(* Model of app/services.py: the two payload validators                    *)
(* (validate_candidate_payload, validate_job_payload) and the match scorer *)
(* (calculate_match_score).  Each function is one action that takes the    *)
(* call from pc = "call" to pc = "return" or pc = "raise".                 *)
(*                                                                         *)
(* Python values are tagged records [t |-> type, v |-> value]; Python str  *)
(* is a TLA+ string, list a sequence, dict a function on its keys.  The    *)
(* float arithmetic of the score is IEEE-754 double precision, computed    *)
(* on arbitrary-precision naturals (little-endian digits in base Radix).   *)
(***************************************************************************)
EXTENDS Integers, Sequences, FiniteSets, TLC

VARIABLES
    pc,             \* "call" | "return" | "raise"
    candidate,      \* the Candidate handed to calculate_match_score
    job,            \* the Job handed to calculate_match_score
    payload,        \* the mapping handed to a validator
    matched_count,  \* calculate_match_score's local, PyNone while unassigned
    result,         \* the returned value, PyNone before the return
    raised,         \* "none" or the class of the exception raised
    errors          \* ValidationError.errors: field -> message

vars == <<pc, candidate, job, payload, matched_count, result, raised, errors>>

---------------------------------------------------------------------------
(* Bounds of the model *)

MaxCandSkills == 9     \* longest candidate skill list (positional family)
MaxJobSkills == 7      \* longest job skill list (prefixes of JobPool)
MaxWideSkills == 3     \* longest candidate list of the mixed-vocabulary family
MaxWideJobSkills == 2  \* longest job list of the mixed-vocabulary family
MaxPayloadSkills == 2  \* longest skills list in a validator payload

---------------------------------------------------------------------------
(* Python values *)

PyNone == [t |-> "none"]
PyStr(s) == [t |-> "str", v |-> s]
PyInt(n) == [t |-> "int", v |-> n]
PyBool(b) == [t |-> "bool", v |-> b]
PyFloat(n) == [t |-> "float", v |-> n]
PyList(l) == [t |-> "list", v |-> l]
PyDict(d) == [t |-> "dict", v |-> d]

EmptyDict == << >>

SeqUpTo(S, n) == UNION {[1..k -> S] : k \in 0..n}

\* dict[key] = value
DictSet(d, key, value) ==
    [k \in DOMAIN d \cup {key} |-> IF k = key THEN value ELSE d[k]]

\* dict.get(key): None when the key is missing
DictGet(d, key) == IF key \in DOMAIN d THEN d[key] ELSE PyNone

\* isinstance(x, str)
IsStr(x) == x.t = "str"

\* isinstance(x, int): bool is a subclass of int
IsInt(x) == x.t \in {"int", "bool"}

\* isinstance(x, list)
IsList(x) == x.t = "list"

\* the integer an int (or bool) compares as
IntValue(x) == IF x.t = "bool" THEN (IF x.v THEN 1 ELSE 0) ELSE x.v

---------------------------------------------------------------------------
(* str methods *)

UpperLetters == "ABCDEFGHIJKLMNOPQRSTUVWXYZ"
LowerLetters == "abcdefghijklmnopqrstuvwxyz"
Whitespace == {" ", "\t", "\n", "\r", "\f"}

CharAt(s, i) == SubSeq(s, i, i)

\* the (upper, lower) pairs of the ASCII letters
CasePairs == {<<CharAt(UpperLetters, i), CharAt(LowerLetters, i)>> : i \in 1..Len(UpperLetters)}

LowerChar(c) ==
    IF \E p \in CasePairs : p[1] = c
    THEN (CHOOSE p \in CasePairs : p[1] = c)[2]
    ELSE c

\* s.lower()
RECURSIVE Lower(_)
Lower(s) ==
    IF Len(s) = 0 THEN ""
    ELSE LowerChar(CharAt(s, 1)) \o Lower(SubSeq(s, 2, Len(s)))

\* s.strip(): drop the leading and the trailing whitespace
Strip(s) ==
    LET ink == {i \in 1..Len(s) : CharAt(s, i) \notin Whitespace}
    IN  IF ink = {} THEN ""
        ELSE SubSeq(s, CHOOSE i \in ink : \A j \in ink : i <= j,
                       CHOOSE i \in ink : \A j \in ink : j <= i)

\* "@" in s
ContainsAt(s) == \E i \in 1..Len(s) : CharAt(s, i) = "@"

\* x in list
InList(x, l) == \E i \in 1..Len(l) : l[i] = x

---------------------------------------------------------------------------
(* IEEE-754 double precision, as Python's float.  A positive double is     *)
(* [m |-> significand, e |-> exponent], value m * 2^e, m a natural of at   *)
(* most MantBits bits held as little-endian digits in base Radix.          *)

RadixBits == 12
Radix == 2 ^ RadixBits
MantBits == 53
DivScaleDigits == 6

RECURSIVE BigOfNat(_)
BigOfNat(n) == IF n = 0 THEN <<>> ELSE <<n % Radix>> \o BigOfNat(n \div Radix)

RECURSIVE NatOfBig(_)
NatOfBig(a) == IF a = <<>> THEN 0 ELSE a[1] + Radix * NatOfBig(Tail(a))

\* drop the leading zero digits
BigTrim(a) ==
    LET nz == {i \in 1..Len(a) : a[i] # 0}
    IN  IF nz = {} THEN <<>> ELSE SubSeq(a, 1, CHOOSE i \in nz : \A j \in nz : j <= i)

\* a + c, carrying through digits that may exceed the radix
RECURSIVE BigCarry(_, _)
BigCarry(a, c) ==
    IF a = <<>> THEN BigOfNat(c)
    ELSE <<(a[1] + c) % Radix>> \o BigCarry(Tail(a), (a[1] + c) \div Radix)

RECURSIVE ConvSum(_, _, _, _)
ConvSum(a, b, k, i) ==
    IF i > Len(a) THEN 0
    ELSE (IF k - i + 1 \in 1..Len(b) THEN a[i] * b[k - i + 1] ELSE 0)
         + ConvSum(a, b, k, i + 1)

\* the exact product a * b
BigMul(a, b) ==
    IF a = <<>> \/ b = <<>> THEN <<>>
    ELSE BigTrim(BigCarry([k \in 1..(Len(a) + Len(b) - 1) |-> ConvSum(a, b, k, 1)], 0))

\* quotient and remainder of d by the small natural n
RECURSIVE BigDivSmall(_, _)
BigDivSmall(d, n) ==
    IF d = <<>> THEN [q |-> <<>>, r |-> 0]
    ELSE LET hi == BigDivSmall(Tail(d), n)
             v  == hi.r * Radix + d[1]
         IN  [q |-> <<v \div n>> \o hi.q, r |-> v % n]

DigitBitLen(d) == CHOOSE k \in 0..RadixBits : d < 2 ^ k /\ (k = 0 \/ d >= 2 ^ (k - 1))

BitLen(a) == IF a = <<>> THEN 0 ELSE RadixBits * (Len(a) - 1) + DigitBitLen(a[Len(a)])

\* bit i of a, bit 0 the lowest
Bit(a, i) ==
    IF i \div RadixBits + 1 > Len(a) THEN 0
    ELSE (a[i \div RadixBits + 1] \div 2 ^ (i % RadixBits)) % 2

DigitAt(a, j) == IF j \in 1..Len(a) THEN a[j] ELSE 0

\* a \div 2^k
BigShr(a, k) ==
    LET q == k \div RadixBits
        s == k % RadixBits
    IN  BigTrim([j \in 1..(Len(a) - q) |->
                   DigitAt(a, j + q) \div 2 ^ s
                   + (DigitAt(a, j + q + 1) % 2 ^ s) * 2 ^ (RadixBits - s)])

\* the double nearest to a * 2^e (+ a nonzero fraction below a's unit when
\* sticky), ties to even
RoundDouble(a, e, sticky) ==
    LET L == BitLen(a)
    IN  IF L <= MantBits THEN [m |-> a, e |-> e]
        ELSE LET k    == L - MantBits
                 kept == BigShr(a, k)
                 low  == sticky \/ \E i \in 0..(k - 2) : Bit(a, i) = 1
                 up   == Bit(a, k - 1) = 1 /\ (low \/ Bit(kept, 0) = 1)
                 r    == IF up THEN BigCarry(kept, 1) ELSE kept
             IN  IF BitLen(r) > MantBits
                 THEN [m |-> BigShr(r, 1), e |-> e + k + 1]
                 ELSE [m |-> r, e |-> e + k]

\* float(n)
FloatOfInt(n) == RoundDouble(BigOfNat(n), 0, FALSE)

\* a / b on ints: the correctly rounded quotient
FloatDivInt(a, b) ==
    LET d == BigDivSmall([i \in 1..DivScaleDigits |-> 0] \o BigOfNat(a), b)
    IN  RoundDouble(BigTrim(d.q), -(RadixBits * DivScaleDigits), d.r # 0)

\* x * y on floats
FloatMul(x, y) == RoundDouble(BigMul(x.m, y.m), x.e + y.e, FALSE)

\* int(x): truncation
IntOfFloat(x) ==
    IF x.e >= 0 THEN NatOfBig(x.m) * 2 ^ x.e ELSE NatOfBig(BigShr(x.m, -x.e))

\* the literal 1.2: the double nearest to 12/10
Float1_2 == FloatDivInt(12, 10)

Min(a, b) == IF a <= b THEN a ELSE b

---------------------------------------------------------------------------
(* calculate_match_score *)

PremiumYears == 10
PremiumMatches == 3
MaxScore == 100

\* int((matched_count / len(job_skills)) * 100)
BaseScore(m, n) == IntOfFloat(FloatMul(FloatDivInt(m, n), FloatOfInt(100)))

\* the bonus applied to the rounded-down base score
PremiumScoreTwoStep(m, n) ==
    IntOfFloat(FloatMul(FloatOfInt(BaseScore(m, n)), Float1_2))

\* int((matched_count / len(job_skills)) * 100 * 1.2)
PremiumScore(m, n) ==
    IntOfFloat(FloatMul(FloatMul(FloatDivInt(m, n), FloatOfInt(100)), Float1_2))

\* the premium branch is taken
IsPremium(years, m) == years > PremiumYears /\ m >= PremiumMatches

\* the two float expressions, evaluated once per (matched_count, len(job_skills))
ScoreMemo ==
    { [m |-> m, n |-> n, base |-> BaseScore(m, n), premium |-> PremiumScore(m, n)] :
        m \in 1..(MaxCandSkills + MaxWideSkills),
        n \in 1..(MaxJobSkills + MaxWideJobSkills) }

\* the score returned without the clamp of line 113
ScoreUnclamped(years, m, n) ==
    LET memo == CHOOSE e \in ScoreMemo : e.m = m /\ e.n = n
    IN  IF IsPremium(years, m) THEN memo.premium ELSE memo.base

\* lines 108-113: the score for matched_count = m > 0 and len(job_skills) = n
Score(years, m, n) ==
    LET memo  == CHOOSE e \in ScoreMemo : e.m = m /\ e.n = n
        score == IF IsPremium(years, m) THEN memo.premium ELSE memo.base
    IN  Min(score, MaxScore)

\* the skill names the inputs are drawn from
JobPool == <<"go", "sql", "rust", "java", "c", "ruby", "php", "perl", "scala", "lua">>
DeepVocab == {"GO", "cobol"}
WideCandVocab == {"go", "sql", "rust"}
WideJobVocab == {"Go", "SQL"}

\* skill.lower(), evaluated once per skill name
LowerMemo ==
    { <<s, Lower(s)>> :
        s \in DeepVocab \cup WideCandVocab \cup WideJobVocab
              \cup {JobPool[i] : i \in 1..Len(JobPool)} }

LowerSkill(s) ==
    IF \E p \in LowerMemo : p[1] = s
    THEN (CHOOSE p \in LowerMemo : p[1] = s)[2]
    ELSE Lower(s)

\* [skill.lower() for skill in skills]
LowerAll(skills) == [i \in 1..Len(skills) |-> LowerSkill(skills[i])]

\* the loop of lines 100-102 over candidate_skills[5:]
RECURSIVE CountFrom(_, _, _)
CountFrom(cs, js, i) ==
    IF i > Len(cs) THEN 0
    ELSE (IF InList(cs[i], js) THEN 1 ELSE 0) + CountFrom(cs, js, i + 1)

\* every matching position counted
MatchedCountAll(cs, js) == CountFrom(cs, js, 1)

\* lines 88-102: the if/elif chain over positions 0..4, else the loop
MatchedCount(cs, js) ==
    IF InList(cs[1], js) THEN 1
    ELSE IF Len(cs) > 1 /\ InList(cs[2], js) THEN 1
    ELSE IF Len(cs) > 2 /\ InList(cs[3], js) THEN 1
    ELSE IF Len(cs) > 3 /\ InList(cs[4], js) THEN 1
    ELSE IF Len(cs) > 4 /\ InList(cs[5], js) THEN 1
    ELSE CountFrom(cs, js, 6)

\* bool(metadata): None and the empty dict are falsy
Truthy(x) == x.t = "dict" /\ DOMAIN x.v # {}

\* only the outer lookup fails
MetadataLookupFailsOuterOnly(metadata) == "skill_weights" \notin DOMAIN metadata.v

\* lines 80-82: metadata["skill_weights"]["base"] raises KeyError
MetadataLookupFails(metadata) ==
    \/ "skill_weights" \notin DOMAIN metadata.v
    \/ "base" \notin DOMAIN metadata.v["skill_weights"].v

\* only the candidate's list checked
ReturnsEarlyCandidateOnly(c, j) == c.skills = <<>>

\* line 75: not candidate.skills or not job.skills_required
ReturnsEarly(c, j) == c.skills = <<>> \/ j.skills_required = <<>>

CalculateMatchScore ==
    /\ pc = "call"
    /\ IF ReturnsEarly(candidate, job)
       THEN /\ pc' = "return"
            /\ result' = PyInt(0)
            /\ UNCHANGED <<matched_count, raised>>
       ELSE IF Truthy(candidate.metadata) /\ MetadataLookupFails(candidate.metadata)
       THEN /\ pc' = "raise"
            /\ raised' = "KeyError"
            /\ UNCHANGED <<matched_count, result>>
       ELSE LET candidate_skills == LowerAll(candidate.skills)
                job_skills       == LowerAll(job.skills_required)
                count            == MatchedCount(candidate_skills, job_skills)
            IN  /\ pc' = "return"
                /\ matched_count' = PyInt(count)
                /\ result' = IF count = 0 THEN PyInt(0)
                             ELSE PyInt(Score(candidate.years_experience, count,
                                              Len(job_skills)))
                /\ UNCHANGED raised
    /\ UNCHANGED <<candidate, job, payload, errors>>

---------------------------------------------------------------------------
(* Inputs of calculate_match_score *)

Years == {2, 10, 11, 12}

PoolJobs == {SubSeq(JobPool, 1, k) : k \in 0..MaxJobSkills}

Metadatas ==
    { PyNone,
      PyDict(EmptyDict),
      PyDict([notes |-> PyInt(1)]),
      PyDict([skill_weights |-> PyDict(EmptyDict)]),
      PyDict([skill_weights |-> PyDict([base |-> PyInt(1)])]),
      PyDict([skill_weights |-> PyDict([base |-> PyInt(2)])]) }

\* long candidate lists, every position matching or not, no metadata
DeepInputs ==
    { [candidate |-> [skills |-> s, years_experience |-> y, metadata |-> PyNone],
       job |-> [skills_required |-> j]] :
        s \in SeqUpTo(DeepVocab, MaxCandSkills), y \in Years, j \in PoolJobs }

\* short lists over a mixed vocabulary, with every shape of metadata
WideInputs ==
    { [candidate |-> [skills |-> s, years_experience |-> y, metadata |-> m],
       job |-> [skills_required |-> j]] :
        s \in SeqUpTo(WideCandVocab, MaxWideSkills), y \in {2, 12}, m \in Metadatas,
        j \in PoolJobs \cup SeqUpTo(WideJobVocab, MaxWideJobSkills) }

Init ==
    /\ pc = "call"
    /\ \E in \in DeepInputs \cup WideInputs :
          /\ candidate = in.candidate
          /\ job = in.job
    /\ payload = EmptyDict
    /\ matched_count = PyNone
    /\ result = PyNone
    /\ raised = "none"
    /\ errors = EmptyDict

Next == CalculateMatchScore

Spec == Init /\ [][Next]_vars

---------------------------------------------------------------------------
(* validate_candidate_payload *)

PyTuple(l) == [t |-> "tuple", v |-> l]

\* all(isinstance(s, str) for s in l)
AllStr(l) == \A i \in 1..Len(l) : IsStr(l[i])

\* emptiness tested without the strip
AllNonEmptyStrUnstripped(l) == \A i \in 1..Len(l) : IsStr(l[i]) /\ l[i].v # ""

\* all(isinstance(s, str) and s.strip() for s in l)
AllNonEmptyStr(l) == \A i \in 1..Len(l) : IsStr(l[i]) /\ Strip(l[i].v) # ""

\* the elements returned as they came
StripNone(l) == [i \in 1..Len(l) |-> PyStr(l[i].v)]

\* [s.strip() for s in l]
StripAll(l) == [i \in 1..Len(l) |-> PyStr(Strip(l[i].v))]

\* lines 26-28
NameInvalid(name) == ~IsStr(name) \/ Strip(name.v) = ""

\* lines 30-33
EmailInvalid(email) == ~IsStr(email) \/ ~ContainsAt(email.v)

\* lines 35-37
SkillsInvalid(skills) == ~IsList(skills) \/ ~AllStr(skills.v)

\* lines 39-41
YearsInvalid(years_experience) ==
    ~IsInt(years_experience) \/ IntValue(years_experience) < 0

\* the checks stopped at the first failure
CandidateErrorsFirstOnly(p) ==
    IF NameInvalid(DictGet(p, "name"))
    THEN DictSet(EmptyDict, "name", "name must be a non-empty string")
    ELSE IF EmailInvalid(DictGet(p, "email"))
    THEN DictSet(EmptyDict, "email", "email must be a valid email-like string")
    ELSE IF SkillsInvalid(DictGet(p, "skills"))
    THEN DictSet(EmptyDict, "skills", "skills must be a list of strings")
    ELSE IF YearsInvalid(DictGet(p, "years_experience"))
    THEN DictSet(EmptyDict, "years_experience",
                 "years_experience must be a non-negative integer")
    ELSE EmptyDict

\* lines 24-41: the errors dict after the four checks
CandidateErrors(p) ==
    LET e0 == EmptyDict
        e1 == IF NameInvalid(DictGet(p, "name"))
              THEN DictSet(e0, "name", "name must be a non-empty string") ELSE e0
        e2 == IF EmailInvalid(DictGet(p, "email"))
              THEN DictSet(e1, "email", "email must be a valid email-like string") ELSE e1
        e3 == IF SkillsInvalid(DictGet(p, "skills"))
              THEN DictSet(e2, "skills", "skills must be a list of strings") ELSE e2
        e4 == IF YearsInvalid(DictGet(p, "years_experience"))
              THEN DictSet(e3, "years_experience",
                           "years_experience must be a non-negative integer") ELSE e3
    IN  e4

ValidateCandidatePayload ==
    /\ pc = "call"
    /\ LET errs == CandidateErrors(payload)
       IN  IF DOMAIN errs # {}
           THEN /\ pc' = "raise"
                /\ raised' = "ValidationError"
                /\ errors' = errs
                /\ UNCHANGED result
           ELSE /\ pc' = "return"
                /\ result' = PyTuple(<<PyStr(Strip(payload["name"].v)),
                                       PyStr(Strip(payload["email"].v)),
                                       PyList(StripAll(payload["skills"].v)),
                                       payload["years_experience"]>>)
                /\ UNCHANGED <<raised, errors>>
    /\ UNCHANGED <<candidate, job, payload, matched_count>>

---------------------------------------------------------------------------
(* validate_job_payload *)

\* lines 52-54
TitleInvalid(title) == ~IsStr(title) \/ Strip(title.v) = ""

\* lines 56-58
LocationInvalid(location) == ~IsStr(location) \/ Strip(location.v) = ""

\* lines 60-63
SkillsRequiredInvalid(skills_required) ==
    ~IsList(skills_required) \/ ~AllNonEmptyStr(skills_required.v)

\* lines 50-66: the errors dict after the three checks
JobErrors(p) ==
    LET e0 == EmptyDict
        e1 == IF TitleInvalid(DictGet(p, "title"))
              THEN DictSet(e0, "title", "title must be a non-empty string") ELSE e0
        e2 == IF LocationInvalid(DictGet(p, "location"))
              THEN DictSet(e1, "location", "location must be a non-empty string") ELSE e1
        e3 == IF SkillsRequiredInvalid(DictGet(p, "skills_required"))
              THEN DictSet(e2, "skills_required",
                           "skills_required must be a list of non-empty strings") ELSE e2
    IN  e3

ValidateJobPayload ==
    /\ pc = "call"
    /\ LET errs == JobErrors(payload)
       IN  IF DOMAIN errs # {}
           THEN /\ pc' = "raise"
                /\ raised' = "ValidationError"
                /\ errors' = errs
                /\ UNCHANGED result
           ELSE /\ pc' = "return"
                /\ result' = PyTuple(<<PyStr(Strip(payload["title"].v)),
                                       PyStr(Strip(payload["location"].v)),
                                       PyList(StripAll(payload["skills_required"].v))>>)
                /\ UNCHANGED <<raised, errors>>
    /\ UNCHANGED <<candidate, job, payload, matched_count>>

---------------------------------------------------------------------------
(* Inputs of the validators: payloads as decoded from a request body *)

\* marks a key the payload does not hold
Missing == [t |-> "missing"]

\* the payload holding the keys whose value is not Missing
MakePayload(fields) ==
    [k \in {f \in DOMAIN fields : fields[f] # Missing} |-> fields[k]]

SkillElements == {PyStr(" Go "), PyStr(" sql "), PyStr(""), PyStr(" \t"), PyInt(5)}

SkillLists == {PyList(l) : l \in SeqUpTo(SkillElements, MaxPayloadSkills)}

CandidatePayloads ==
    { MakePayload([name |-> n, email |-> e, skills |-> s, years_experience |-> y]) :
        n \in {Missing, PyNone, PyInt(5), PyStr(""), PyStr(" \n"), PyStr(" Ann ")},
        e \in {Missing, PyInt(7), PyStr("ab"), PyStr("a@b.com"), PyStr(" a@b.com\t")},
        s \in {Missing, PyStr("go")} \cup SkillLists,
        y \in {Missing, PyStr("3"), PyFloat(3), PyInt(-1), PyInt(0), PyInt(3),
               PyBool(TRUE)} }

JobPayloads ==
    { MakePayload([title |-> t, location |-> l, skills_required |-> s]) :
        t \in {Missing, PyInt(5), PyStr(""), PyStr("\t "), PyStr(" Eng ")},
        l \in {Missing, PyNone, PyStr(" "), PyStr(" NYC "), PyStr("NYC")},
        s \in {Missing, PyStr("Go")} \cup SkillLists }

InitValidator ==
    /\ pc = "call"
    /\ candidate = PyNone
    /\ job = PyNone
    /\ matched_count = PyNone
    /\ result = PyNone
    /\ raised = "none"
    /\ errors = EmptyDict

InitCandidate == InitValidator /\ payload \in CandidatePayloads

InitJob == InitValidator /\ payload \in JobPayloads

NextCandidate == ValidateCandidatePayload

NextJob == ValidateJobPayload

SpecCandidate == InitCandidate /\ [][NextCandidate]_vars

SpecJob == InitJob /\ [][NextJob]_vars

---------------------------------------------------------------------------
(* Properties of calculate_match_score, under Spec *)

\* a and b are the same string up to the case of their letters
EqualsIgnoreCase(a, b) ==
    /\ Len(a) = Len(b)
    /\ \A i \in 1..Len(a) : LowerChar(CharAt(a, i)) = LowerChar(CharAt(b, i))

\* the candidate's skill at position i is, case-insensitively, required by the job
Hit(i) ==
    \E k \in 1..Len(job.skills_required) :
        EqualsIgnoreCase(candidate.skills[i], job.skills_required[k])

\* the positions of the candidate's skills the job requires
Hits == {i \in 1..Len(candidate.skills) : Hit(i)}

\* one of the first five positions is a hit
FirstFiveHit == \E i \in Hits : i <= 5

\* the call returned a score computed from a count
Counted == pc = "return" /\ matched_count.t = "int"

\* the premium branch of line 108 was taken
BonusApplied ==
    /\ Counted
    /\ matched_count.v > 0
    /\ candidate.years_experience > 10
    /\ matched_count.v >= 3

\* C1: the matched count used for the score is the number of candidate skills
\* that are, case-insensitively, in the job's required-skills list (every
\* position tested, no positional rule).
C1_CountIsMembershipCount ==
    Counted => matched_count.v = Cardinality(Hits)

\* C2: skills ["go","sql","rust"], years 12, against a job requiring
\* ["go","sql","rust"]: matched_count is 3, the premium branch is taken and the
\* score is 100; and exactly one matching skill out of 4 required with years 2
\* scores 25.
C2_Examples ==
    /\ ( /\ Counted
         /\ candidate.skills = <<"go", "sql", "rust">>
         /\ candidate.years_experience = 12
         /\ job.skills_required = <<"go", "sql", "rust">> )
       => (matched_count.v = 3 /\ BonusApplied /\ result = PyInt(100))
    /\ ( /\ Counted
         /\ Cardinality(Hits) = 1
         /\ Len(job.skills_required) = 4
         /\ candidate.years_experience = 2 )
       => result = PyInt(25)

\* the score of the two-step rule for matched_count m and n required skills
TwoStepScore(m, n) ==
    LET base == (m * 100) \div n
    IN  IF candidate.years_experience > 10 /\ m >= 3
        THEN (base * 12) \div 10
        ELSE base

\* C3 as stated: with matched_count > 0 the result is min(100, s), s computed
\* in two truncating steps: base = floor(matched_count / n * 100), then, with
\* the bonus, s = truncate(base * 1.2).
C3_TwoStepTruncation ==
    (Counted /\ matched_count.v > 0)
        => result = PyInt(Min(TwoStepScore(matched_count.v,
                                           Len(job.skills_required)), 100))

\* C3 as amended: with matched_count > 0 the result is min(100, s), s a single
\* truncation of the double-precision product matched_count / n * 100 (* 1.2
\* with the bonus): s is floor(k * matched_count / n), k = 120 with the bonus
\* and 100 without, or one less when that quotient is an exact integer and
\* the floating-point product falls just below it.
C3_SingleTruncation ==
    (Counted /\ matched_count.v > 0)
        => LET k     == IF BonusApplied THEN 120 ELSE 100
               n     == Len(job.skills_required)
               exact == (k * matched_count.v) % n = 0
               floor == (k * matched_count.v) \div n
           IN  /\ result.t = "int"
               /\ \/ result.v = Min(floor, 100)
                  \/ exact /\ result.v = Min(floor - 1, 100)

\* 3 of 7 with the bonus: 51, where the two-step rule gives 50
C3_Witness ==
    /\ BonusApplied
    /\ matched_count.v = 3
    /\ Len(job.skills_required) = 7
    /\ result = PyInt(51)

\* C4: every value returned is an integer in 0..100, whatever the candidate
\* (duplicate skills included) and the job.
C4_ScoreInRange ==
    pc = "return" => (result.t = "int" /\ result.v \in 0..100)

\* duplicates make the count exceed the number of required skills; the bonus
\* product is clamped
C4_Witness ==
    /\ BonusApplied
    /\ matched_count.v > Len(job.skills_required)
    /\ result = PyInt(100)

\* C5: the score is 0, and the call does not fail, whenever the candidate's
\* skills or the job's skills_required is empty, whatever the metadata and
\* the years of experience.
C5_EmptyListScoresZero ==
    (pc # "call" /\ (candidate.skills = <<>> \/ job.skills_required = <<>>))
        => (pc = "return" /\ raised = "none" /\ result = PyInt(0))

\* no required skills, and metadata whose lookup would fail
C5_Witness ==
    /\ pc = "return"
    /\ job.skills_required = <<>>
    /\ candidate.skills # <<>>
    /\ candidate.years_experience = 12
    /\ candidate.metadata = PyDict([notes |-> PyInt(1)])
    /\ result = PyInt(0)

\* the metadata is a non-empty mapping without skill_weights, or whose
\* skill_weights is without base
MetadataMalformed ==
    /\ candidate.metadata.t = "dict"
    /\ DOMAIN candidate.metadata.v # {}
    /\ \/ "skill_weights" \notin DOMAIN candidate.metadata.v
       \/ "base" \notin DOMAIN candidate.metadata.v["skill_weights"].v

\* the score of the same candidate without metadata
ScoreWithoutMetadata ==
    LET count == MatchedCount(LowerAll(candidate.skills),
                              LowerAll(job.skills_required))
    IN  IF count = 0 THEN 0
        ELSE Score(candidate.years_experience, count, Len(job.skills_required))

\* C9: with both lists non-empty, malformed metadata makes the call fail with
\* a lookup error and no score; absent, empty or well-formed metadata yields
\* the score of the same candidate without metadata, whatever base is.
C9_MetadataLookup ==
    (pc # "call" /\ candidate.skills # <<>> /\ job.skills_required # <<>>)
        => IF MetadataMalformed
           THEN pc = "raise" /\ raised = "KeyError" /\ result = PyNone
           ELSE pc = "return" /\ raised = "none"
                /\ result = PyInt(ScoreWithoutMetadata)

\* skill_weights present, base missing: the inner lookup fails
C9_Witness ==
    /\ pc = "raise"
    /\ raised = "KeyError"
    /\ candidate.metadata = PyDict([skill_weights |-> PyDict(EmptyDict)])
    /\ candidate.skills # <<>>
    /\ job.skills_required # <<>>

---------------------------------------------------------------------------
(* Properties of the validators, under SpecCandidate and SpecJob *)

\* the payload's value for a key, None when the key is missing
Field(k) == IF k \in DOMAIN payload THEN payload[k] ELSE PyNone

\* x is a string with a character that is not whitespace
NonBlankString(x) ==
    x.t = "str" /\ \E i \in 1..Len(x.v) : CharAt(x.v, i) \notin Whitespace

\* x is a list of strings
ListOfStrings(x) == x.t = "list" /\ \A i \in 1..Len(x.v) : x.v[i].t = "str"

\* x is an integer >= 0; Python's int includes bool, True being 1, False 0
NonNegativeInteger(x) == (x.t = "int" /\ x.v >= 0) \/ x.t = "bool"

\* t is s without its leading and its trailing whitespace
TrimOf(t, s) ==
    \E i \in 1..(Len(s) + 1) : \E j \in (i - 1)..Len(s) :
        /\ \A k \in 1..(i - 1) : CharAt(s, k) \in Whitespace
        /\ \A k \in (j + 1)..Len(s) : CharAt(s, k) \in Whitespace
        /\ IF j < i THEN t = ""
           ELSE /\ t = SubSeq(s, i, j)
                /\ CharAt(s, i) \notin Whitespace
                /\ CharAt(s, j) \notin Whitespace

\* out is the list in, each string trimmed, in the same order
TrimmedList(out, in) ==
    /\ out.t = "list"
    /\ Len(out.v) = Len(in.v)
    /\ \A i \in 1..Len(in.v) : out.v[i].t = "str" /\ TrimOf(out.v[i].v, in.v[i].v)

\* the candidate fields that break their rule
CandidateViolations ==
    {f \in {"name", "email", "skills", "years_experience"} :
        \/ f = "name" /\ ~NonBlankString(Field("name"))
        \/ f = "email" /\ ~(Field("email").t = "str"
                            /\ \E i \in 1..Len(Field("email").v) :
                                   CharAt(Field("email").v, i) = "@")
        \/ f = "skills" /\ ~ListOfStrings(Field("skills"))
        \/ f = "years_experience" /\ ~NonNegativeInteger(Field("years_experience"))}

\* C6: validate_candidate_payload fails with a ValidationError exactly when a
\* field rule is broken, and the keys of the error mapping are then exactly
\* the fields that break their rule: all of them, and no other.
C6_CandidateErrorsComplete ==
    pc # "call" =>
        /\ pc = "raise" <=> CandidateViolations # {}
        /\ pc = "raise" => (raised = "ValidationError"
                            /\ DOMAIN errors = CandidateViolations)
        /\ pc = "return" => (raised = "none" /\ errors = EmptyDict)

\* two fields missing, the other two valid: both are reported
C6_Witness ==
    /\ pc = "raise"
    /\ DOMAIN payload = {"name", "skills"}
    /\ DOMAIN errors = {"email", "years_experience"}

\* the payload and the tuple of the specification's example
ExamplePayload ==
    [name |-> PyStr(" Ann "), email |-> PyStr("a@b.com"),
     skills |-> PyList(<<PyStr(" Go "), PyStr(" sql ")>>),
     years_experience |-> PyInt(3)]

ExampleTuple ==
    PyTuple(<<PyStr("Ann"), PyStr("a@b.com"),
              PyList(<<PyStr("Go"), PyStr("sql")>>), PyInt(3)>>)

\* C7: on success the tuple is (trimmed name, trimmed email, the skills
\* trimmed, in order and of the same length, years_experience unchanged);
\* the example payload yields the example tuple; an empty or whitespace-only
\* skill is accepted and returned as the empty string.
C7_CandidateTupleTrimmed ==
    pc = "return" =>
        /\ result.t = "tuple"
        /\ Len(result.v) = 4
        /\ result.v[1].t = "str" /\ TrimOf(result.v[1].v, payload["name"].v)
        /\ result.v[2].t = "str" /\ TrimOf(result.v[2].v, payload["email"].v)
        /\ TrimmedList(result.v[3], payload["skills"])
        /\ result.v[4] = payload["years_experience"]
        /\ payload = ExamplePayload => result = ExampleTuple
        /\ \A i \in 1..Len(payload["skills"].v) :
               payload["skills"].v[i].v \in {"", " \t"} => result.v[3].v[i] = PyStr("")

\* the example of the specification
C7_Witness ==
    /\ pc = "return"
    /\ payload = ExamplePayload
    /\ result = ExampleTuple

\* the job fields that break their rule
JobViolations ==
    {f \in {"title", "location", "skills_required"} :
        \/ f = "title" /\ ~NonBlankString(Field("title"))
        \/ f = "location" /\ ~NonBlankString(Field("location"))
        \/ f = "skills_required"
           /\ ~(Field("skills_required").t = "list"
                /\ \A i \in 1..Len(Field("skills_required").v) :
                       NonBlankString(Field("skills_required").v[i]))}

\* C8: validate_job_payload fails with a ValidationError whose keys are
\* exactly the fields that break their rule (a skills_required holding an
\* empty or whitespace-only string breaks it); otherwise it returns (trimmed
\* title, trimmed location, the required skills trimmed, in order), every
\* returned skill non-empty.
C8_JobValidation ==
    pc # "call" =>
        IF JobViolations # {}
        THEN pc = "raise" /\ raised = "ValidationError"
             /\ DOMAIN errors = JobViolations /\ result = PyNone
        ELSE /\ pc = "return" /\ raised = "none"
             /\ result.t = "tuple"
             /\ Len(result.v) = 3
             /\ result.v[1].t = "str" /\ TrimOf(result.v[1].v, payload["title"].v)
             /\ result.v[2].t = "str" /\ TrimOf(result.v[2].v, payload["location"].v)
             /\ TrimmedList(result.v[3], payload["skills_required"])
             /\ \A i \in 1..Len(result.v[3].v) : result.v[3].v[i].v # ""

\* a whitespace-only required skill is the only fault, and is reported
C8_Witness ==
    /\ pc = "raise"
    /\ DOMAIN errors = {"skills_required"}
    /\ Field("skills_required").t = "list"
    /\ \E i \in 1..Len(Field("skills_required").v) :
           /\ Field("skills_required").v[i].t = "str"
           /\ Field("skills_required").v[i].v = " \t"

=============================================================================
